---- MODULE Spec2Model ----
(***************************************************************************)
(* Model of charts-community-modules/core/src/chart/agChart.ts: the schema *)
(* registry `mappings`, getMapping, and the AgChart builder engine         *)
(* (create / update and their helpers).                                    *)
(*                                                                         *)
(* Representation of JavaScript values (told apart by their field names):  *)
(*   [prim |-> s]            undefined, null, a number, a boolean          *)
(*   [str |-> <<s1,..,sn>>]  the string s1.s2...sn: a string is kept as    *)
(*                           the sequence of its dot-free segments, so     *)
(*                           that a + '.' + b is a \o b and split('.') is  *)
(*                           the sequence itself                           *)
(*   [props |-> entries]     a plain object; entries is the ordered        *)
(*                           sequence of its own [k, v] properties         *)
(*   [props, proto]          an object made by Object.create(proto)        *)
(*   [elems |-> seq]         an array                                      *)
(*   [fn |-> name]           a function (a class constructor)              *)
(*   [dom |-> name]          a host object (document.body)                 *)
(*   [ctor, by, args, props] an instance of class ctor, constructed with   *)
(*                           args; by tells the object the engine made     *)
(*                           with `new` ("engine") from the one the chart  *)
(*                           constructor made itself ("chart")             *)
(***************************************************************************)
EXTENDS Integers, Sequences, FiniteSets, TLC

Undefined == [prim |-> "undefined"]
Null == [prim |-> "null"]
Five == [prim |-> "5"]
True == [prim |-> "true"]
Str(segs) == [str |-> segs]
Obj(entries) == [props |-> entries]
Arr(seq) == [elems |-> seq]
Fn(name) == [fn |-> name]
P(key, value) == [k |-> key, v |-> value]

\* The value of `path` when the parameter is not passed.
NoPath == <<>>

\* JavaScript truthiness: `!v` is ~Truthy(v).
Truthy(v) ==
    IF "prim" \in DOMAIN v THEN v.prim \notin {"undefined", "null", "false", "0"}
    ELSE IF "str" \in DOMAIN v THEN v.str # <<"">>
    ELSE TRUE

\* null and undefined: reading a property of either throws a TypeError.
Nullish(v) == "prim" \in DOMAIN v /\ v.prim \in {"undefined", "null"}

\* `v && typeof v === 'object'` (arrays and class instances included).
IsObject(v) == "props" \in DOMAIN v \/ "elems" \in DOMAIN v \/ "dom" \in DOMAIN v

IsArray(v) == "elems" \in DOMAIN v

HasOwn(o, key) == "props" \in DOMAIN o /\ \E i \in 1..Len(o.props) : o.props[i].k = key

OwnGet(o, key) == o.props[CHOOSE i \in 1..Len(o.props) : o.props[i].k = key].v

OwnKeys(o) == IF "props" \in DOMAIN o THEN [i \in 1..Len(o.props) |-> o.props[i].k] ELSE <<>>

\* The table Legend.defaults read by _update: the names of the legend's options
\* and the default of each (the table itself is defined in chart/legend.ts).
LegendDefaults == Obj(<<P("position", Str(<<"bottom">>)), P("padding", Str(<<"20">>))>>)

\* v[key]: own property, then the prototype chain; every object inherits
\* `constructor` (Object.prototype.constructor, or the class of an instance).
\* Of the inherited properties only `constructor` is kept, the one the engine
\* reads; the configurations below use no other name of Object.prototype.
RECURSIVE Get(_, _)
Get(v, key) ==
    IF HasOwn(v, key) THEN OwnGet(v, key)
    ELSE IF "proto" \in DOMAIN v THEN Get(v.proto, key)
    ELSE IF key = "constructor" THEN
        (IF "ctor" \in DOMAIN v THEN Fn(v.ctor)
         ELSE IF "props" \in DOMAIN v THEN Fn("Object")
         ELSE IF "elems" \in DOMAIN v THEN Fn("Array")
         ELSE IF "fn" \in DOMAIN v THEN Fn("Function")
         ELSE IF "str" \in DOMAIN v THEN Fn("String")
         ELSE Undefined)
    ELSE IF "fn" \in DOMAIN v /\ v.fn = "Legend" /\ key = "defaults" THEN LegendDefaults
    ELSE Undefined

\* `key in v` for an object v.
HasProp(v, key) == HasOwn(v, key) \/ ("proto" \in DOMAIN v /\ HasOwn(v.proto, key)) \/ key = "constructor"

\* o[key] = value: always an own property of o.
Set(o, key, value) ==
    IF HasOwn(o, key)
    THEN [o EXCEPT !.props = [i \in 1..Len(@) |-> IF @[i].k = key THEN P(key, value) ELSE @[i]]]
    ELSE [o EXCEPT !.props = Append(@, P(key, value))]

\* The object that o[key] refers to was changed in place into `value`: the
\* change shows in whichever object of the prototype chain holds the reference.
Put(o, key, value) ==
    IF HasOwn(o, key) THEN Set(o, key, value)
    ELSE IF "proto" \in DOMAIN o /\ HasOwn(o.proto, key) THEN [o EXCEPT !.proto = Set(@, key, value)]
    ELSE o

\* The keys `for (const key in o)` visits: own keys, then inherited ones.
ForInKeys(o) ==
    IF "proto" \in DOMAIN o
    THEN OwnKeys(o) \o SelectSeq(OwnKeys(o.proto), LAMBDA key : ~HasOwn(o, key))
    ELSE OwnKeys(o)

\* Object.create(options): an empty object whose prototype is options.
ObjectCreate(options) == [props |-> <<>>, proto |-> options]

mappings ==
    Obj(<<
      P("cartesian", Obj(<<
        P("constructor", Fn("CartesianChart")),
        P("constructorParams", Arr(<<Str(<<"document">>)>>)),
        P("exclude", Arr(<<Str(<<"parent">>), Str(<<"data">>)>>)),
        P("defaults", Obj(<<
          P("axes", Arr(<<
            Obj(<<P("type", Str(<<"category">>)), P("position", Str(<<"bottom">>))>>),
            Obj(<<P("type", Str(<<"number">>)), P("position", Str(<<"left">>))>>)>>))>>)),
        P("padding", Obj(<<P("constructor", Fn("Padding"))>>)),
        P("title", Obj(<<P("constructor", Fn("Caption"))>>)),
        P("subtitle", Obj(<<P("constructor", Fn("Caption"))>>)),
        P("axes", Obj(<<
          P("number", Obj(<<P("constructor", Fn("NumberAxis")), P("label", Obj(<<>>)), P("tick", Obj(<<>>))>>)),
          P("category", Obj(<<P("constructor", Fn("CategoryAxis")), P("label", Obj(<<>>)), P("tick", Obj(<<>>))>>))>>)),
        P("series", Obj(<<
          P("line", Obj(<<P("constructor", Fn("LineSeries")), P("marker", Obj(<<>>))>>)),
          P("column", Obj(<<P("constructor", Fn("ColumnSeries"))>>)),
          P("bar", Obj(<<P("constructor", Fn("BarSeries"))>>)),
          P("scatter", Obj(<<P("constructor", Fn("ScatterSeries")), P("marker", Obj(<<>>))>>)),
          P("area", Obj(<<P("constructor", Fn("AreaSeries")), P("marker", Obj(<<>>))>>))>>)),
        P("legend", Obj(<<P("constructor", Fn("Legend"))>>))>>)),
      P("polar", Obj(<<
        P("constructor", Fn("PolarChart")),
        P("constructorParams", Arr(<<Str(<<"document">>)>>)),
        P("defaults", Obj(<<P("parent", [dom |-> "document.body"])>>)),
        P("series", Obj(<<
          P("pie", Obj(<<P("constructor", Fn("PieSeries"))>>))>>)),
        P("legend", Obj(<<P("constructor", Fn("Legend"))>>))>>))>>)

\* The result of a call: raised names the place of an uncaught TypeError ("" when
\* the call returned); options is the options object as the call left it.
Ret(value, options) == [raised |-> "", value |-> value, options |-> options]
Throw(site, options) == [raised |-> site, value |-> Undefined, options |-> options]

\* parts.forEach(part => { value = value[part]; }): value[part] throws when
\* value is undefined (or null).
RECURSIVE Walk(_, _, _)
Walk(value, parts, i) ==
    IF i > Len(parts) THEN Ret(value, Undefined)
    ELSE IF Nullish(value) THEN Throw("getMapping", Undefined)
    ELSE Walk(Get(value, parts[i]), parts, i + 1)

getMapping(path) == Walk(mappings, path, 1)

\* options.series[0] in setChartType.
Index0(series) ==
    IF IsArray(series) THEN (IF Len(series.elems) > 0 THEN series.elems[1] ELSE Undefined)
    ELSE IF "str" \in DOMAIN series THEN [prim |-> "char"]
    ELSE Get(series, "0")

\* The loops labelled outerLoop: the first chart type of `mappings`, in its
\* key order, one of whose series keys is seriesType; Undefined when none is.
RECURSIVE FindChartType(_, _)
FindChartType(seriesType, i) ==
    IF i > Len(OwnKeys(mappings)) THEN Undefined
    ELSE IF \E seriesKey \in {OwnKeys(Get(Get(mappings, OwnKeys(mappings)[i]), "series"))[j] :
                              j \in 1..Len(OwnKeys(Get(Get(mappings, OwnKeys(mappings)[i]), "series")))} :
                seriesType = Str(<<seriesKey>>)
    THEN Str(<<OwnKeys(mappings)[i]>>)
    ELSE FindChartType(seriesType, i + 1)

\* const series = options.series && options.series[0];
FirstSeries(s) == IF Truthy(s) THEN Index0(s) ELSE s

\* series && series.type
SeriesTypeOf(series) == IF Truthy(series) THEN Get(series, "type") ELSE series

\* The type the search leaves in options.type (undefined when it sets none).
InferredType(seriesType) == IF Truthy(seriesType) THEN FindChartType(seriesType, 1) ELSE Undefined

\* if (!options.type) { options.type = 'cartesian'; }
OrCartesian(type) == IF Truthy(type) THEN type ELSE Str(<<"cartesian">>)

\* setChartType without the search: every configuration without a type is
\* taken for a cartesian one.
setChartTypeNoSearch(options) ==
    IF Truthy(Get(options, "type")) THEN options
    ELSE Set(options, "type", Str(<<"cartesian">>))

setChartType(options) ==
    IF Truthy(Get(options, "type")) THEN options
    ELSE Set(options, "type",
             OrCartesian(InferredType(SeriesTypeOf(FirstSeries(Get(options, "series"))))))

\* if (path === seriesPath && !options.type) { options.type = type; }
DefaultSeriesType(options, path, seriesPath, type) ==
    IF path = seriesPath /\ ~Truthy(Get(options, "type"))
    THEN Set(options, "type", Str(<<type>>)) ELSE options

setComponentType(options, path) ==
    DefaultSeriesType(
        DefaultSeriesType(IF path = NoPath THEN setChartType(options) ELSE options,
                          path, <<"cartesian", "series">>, "line"),
        path, <<"polar", "series">>, "pie")

\* FillDefault without its test: the default replaces what the caller gave.
FillDefaultAlways(options, defaults, key) ==
    Set(options, key, Get(defaults, key))

\* if (!options[key]) { options[key] = defaults[key]; }
FillDefault(options, defaults, key) ==
    IF ~Truthy(Get(options, key)) THEN Set(options, key, Get(defaults, key)) ELSE options

\* The loop of setComponentDefaults over the keys of `defaults`, from the i-th.
RECURSIVE FillDefaults(_, _, _)
FillDefaults(options, defaults, i) ==
    IF i > Len(OwnKeys(defaults)) THEN options
    ELSE FillDefaults(FillDefault(options, defaults, OwnKeys(defaults)[i]), defaults, i + 1)

setComponentDefaults(options, mapping) ==
    IF Truthy(Get(mapping, "defaults"))
    THEN FillDefaults(options, Get(mapping, "defaults"), 1)
    ELSE options

\* The segments that `path + '.' + type` appends for a truthy type.
TypeSegs(type) ==
    IF "str" \in DOMAIN type THEN type.str
    ELSE IF "prim" \in DOMAIN type THEN <<type.prim>>
    ELSE <<"[object Object]">>

\* `path` after the lines `if (path) {...} else { path = options.type; }`.
ResolvePath(options, path) ==
    IF path # NoPath
    THEN (IF Truthy(Get(options, "type")) THEN path \o TypeSegs(Get(options, "type")) ELSE path)
    ELSE TypeSegs(Get(options, "type"))

\* mapping.constructorParams || []
ConstructorParams(mapping) ==
    IF IsArray(Get(mapping, "constructorParams")) THEN Get(mapping, "constructorParams").elems ELSE <<>>

\* constructorParams.indexOf(key) < 0
NotConstructorParam(mapping, key) ==
    \A i \in 1..Len(ConstructorParams(mapping)) : ConstructorParams(mapping)[i] # Str(<<key>>)

\* constructorParams.map(param => options[param]).filter(value => value !== undefined)
ConstructorParamValues(options, mapping) ==
    SelectSeq([i \in 1..Len(ConstructorParams(mapping)) |->
                  Get(options, ConstructorParams(mapping)[i].str[1])],
              LAMBDA value : value # Undefined)

\* mapping.exclude && mapping.exclude.indexOf(key) >= 0
Excluded(exclude, key) ==
    IsArray(exclude) /\ \E i \in 1..Len(exclude.elems) : exclude.elems[i] = Str(<<key>>)

\* key in mapping && !(mapping.exclude && mapping.exclude.indexOf(key) >= 0)
IsSchemaChild(mapping, key) ==
    HasProp(mapping, key) /\ ~Excluded(Get(mapping, "exclude"), key)

\* HoldsExisting with the test of the instance property inverted.
HoldsExistingInverted(mapping, component, key) ==
    Truthy(Get(mapping, key)) /\ ~Truthy(Get(component, key))

\* mapping[key] && component[key]: the instance property already exists.
HoldsExisting(mapping, component, key) ==
    Truthy(Get(mapping, key)) /\ Truthy(Get(component, key))

\* The legend a chart constructor makes for itself (chart.legend of the comment
\* at line 199); its options start at their defaults.
AutoLegend == [ctor |-> "Legend", by |-> "chart", args |-> <<>>, props |-> LegendDefaults.props]

IsChartClass(name) == name \in {"CartesianChart", "PolarChart"}

\* new F(...args) for the classes the registry names: a chart comes with its
\* legend, every other component starts without properties.
Construct(name, args) ==
    [ctor |-> name, by |-> "engine", args |-> args,
     props |-> IF IsChartClass(name) THEN <<P("legend", AutoLegend)>> ELSE <<>>]

RECURSIVE _create(_, _, _)
RECURSIVE CreateElems(_, _, _, _)
RECURSIVE CreateKeys(_, _, _, _, _, _)

\* After the call r for the i-th element: a throw ends the map; a truthy
\* component passes the filter. acc.elems are the elements as the calls left them.
AfterElem(r, elems, i, path, acc) ==
    IF r.raised # ""
    THEN [raised |-> r.raised, subs |-> acc.subs, elems |-> [acc.elems EXCEPT ![i] = r.options]]
    ELSE CreateElems(elems, i + 1, path,
                     [raised |-> "",
                      subs |-> IF Truthy(r.value) THEN Append(acc.subs, r.value) ELSE acc.subs,
                      elems |-> [acc.elems EXCEPT ![i] = r.options]])

\* value.map(config => AgChart._create(config, path)).filter(config => !!config),
\* from the i-th element.
CreateElems(elems, i, path, acc) ==
    IF i > Len(elems) THEN acc
    ELSE AfterElem(_create(elems[i], path, Undefined), elems, i, path, acc)

\* component[key] = subComponents;
AssignElems(r, key, options, component) ==
    IF r.raised # "" THEN Throw(r.raised, Put(options, key, Arr(r.elems)))
    ELSE Ret(Set(component, key, Arr(r.subs)), Put(options, key, Arr(r.elems)))

\* AgChart._create(value, path + '.' + key, component[key]): the existing
\* instance is configured in place, the result of the call is not used.
Reconfigured(r, key, options, component) ==
    IF r.raised # "" THEN Throw(r.raised, Put(options, key, r.options))
    ELSE Ret(IF r.value # Undefined THEN Set(component, key, r.value) ELSE component,
             Put(options, key, r.options))

\* if (subComponent) { component[key] = subComponent; }
AssignChild(r, key, options, component) ==
    IF r.raised # "" THEN Throw(r.raised, Put(options, key, r.options))
    ELSE Ret(IF Truthy(r.value) THEN Set(component, key, r.value) ELSE component,
             Put(options, key, r.options))

\* The branch of the loop for a key of the schema that is not excluded.
CreateChild(key, value, options, path, mapping, component) ==
    IF IsArray(value)
    THEN AssignElems(CreateElems(value.elems, 1, path \o <<key>>,
                                 [raised |-> "", subs |-> <<>>, elems |-> value.elems]),
                     key, options, component)
    ELSE IF HoldsExisting(mapping, component, key)
    THEN Reconfigured(_create(value, path \o <<key>>, Get(component, key)), key, options, component)
    ELSE IF Nullish(value) THEN Throw("value.type", options)
    ELSE AssignChild(_create(value,
                             IF Truthy(Get(value, "type")) THEN path ELSE path \o <<key>>,
                             Undefined),
                     key, options, component)

\* One turn of the loop `for (const key in options)` of _create.
CreateKey(key, options, path, mapping, component) ==
    IF key = "type" \/ ~NotConstructorParam(mapping, key) THEN Ret(component, options)
    ELSE IF ~IsSchemaChild(mapping, key) THEN Ret(Set(component, key, Get(options, key)), options)
    ELSE CreateChild(key, Get(options, key), options, path, mapping, component)

\* After the turn r for the i-th key: a throw ends the loop.
NextKey(r, keys, i, path, mapping) ==
    IF r.raised # "" THEN r
    ELSE CreateKeys(keys, i + 1, r.options, path, mapping, r.value)

\* for (const key in options) {...} return component; from the i-th key.
CreateKeys(keys, i, options, path, mapping, component) ==
    IF i > Len(keys) THEN Ret(component, options)
    ELSE NextKey(CreateKey(keys[i], options, path, mapping, component), keys, i, path, mapping)

\* component = component || new mapping.constructor(...constructorParamValues);
\* and the loop over the keys.
CreateWith(options, path, mapping, component) ==
    IF ~Truthy(component) /\ "fn" \notin DOMAIN Get(mapping, "constructor")
    THEN Throw("new", options)
    ELSE CreateKeys(ForInKeys(options), 1, options, path, mapping,
                    IF Truthy(component) THEN component
                    ELSE Construct(Get(mapping, "constructor").fn,
                                   ConstructorParamValues(options, mapping)))

\* const mapping = getMapping(path); if (mapping) {...}
CreateMapped(options, path, m, component) ==
    IF m.raised # "" THEN Throw(m.raised, options)
    ELSE IF ~Truthy(m.value) THEN Ret(Undefined, options)
    ELSE CreateWith(setComponentDefaults(options, m.value), path, m.value, component)

\* _create from the resolved path on.
CreateAt(options, path, component) == CreateMapped(options, path, getMapping(path), component)

\* _create after setComponentType.
CreateTyped(options, path, component) == CreateAt(options, ResolvePath(options, path), component)

_create(options, path, component) ==
    IF ~(Truthy(options) /\ IsObject(options)) THEN Ret(Undefined, options)
    ELSE CreateTyped(setComponentType(options, path), path, component)

\* What the caller has after the call r on Object.create(options): the
\* instance (or undefined), and the own options object as the call left it.
CreateResult(r) == [raised |-> r.raised, value |-> r.value, options |-> r.options.proto]

create(options) == CreateResult(_create(ObjectCreate(options), NoPath, Undefined))

\* InstanceOf that accepts an instance of any class.
InstanceOfAnything(component, F) ==
    "ctor" \in DOMAIN component

\* component instanceof F for a class F of the registry (the chart, series, axis
\* and legend classes do not extend one another); everything is an Object.
InstanceOf(component, F) ==
    "ctor" \in DOMAIN component /\ (component.ctor = F.fn \/ F.fn = "Object")

\* UpdateLegendKey as a merge: an option the configuration does not give keeps
\* its value.
UpdateLegendKeyMerge(legend, optionsLegend, key) ==
    IF HasProp(optionsLegend, key)
    THEN Set(legend, key, Get(optionsLegend, key))
    ELSE legend

\* One turn of the loop `for (const key in Legend.defaults)` of _update.
UpdateLegendKey(legend, optionsLegend, key) ==
    IF HasProp(optionsLegend, key)
    THEN Set(legend, key, Get(optionsLegend, key))
    ELSE Set(legend, key, Get(Get(Fn("Legend"), "defaults"), key))

RECURSIVE UpdateLegend(_, _, _)
UpdateLegend(legend, optionsLegend, i) ==
    IF i > Len(OwnKeys(Get(Fn("Legend"), "defaults"))) THEN legend
    ELSE UpdateLegend(UpdateLegendKey(legend, optionsLegend, OwnKeys(Get(Fn("Legend"), "defaults"))[i]),
                      optionsLegend, i + 1)

\* if (options.legend) {...}
ApplyLegend(component, options, optionsLegend) ==
    IF ~Truthy(optionsLegend) THEN Ret(component, options)
    ELSE IF ~IsObject(optionsLegend) THEN Throw("in", options)
    ELSE IF Nullish(Get(component, "legend")) THEN Throw("component.legend", options)
    ELSE Ret(Set(component, "legend", UpdateLegend(Get(component, "legend"), optionsLegend, 1)),
             options)

\* const mapping = getMapping(path); if (mapping) {...} and the legend.
UpdateMapped(component, options, m) ==
    IF m.raised # "" THEN Throw(m.raised, options)
    ELSE IF ~Truthy(m.value) THEN ApplyLegend(component, options, Get(options, "legend"))
    ELSE IF "fn" \notin DOMAIN Get(m.value, "constructor") THEN Throw("instanceof", options)
    ELSE IF ~InstanceOf(component, Get(m.value, "constructor")) THEN Ret(component, options)
    ELSE ApplyLegend(component, setComponentDefaults(options, m.value),
                     Get(setComponentDefaults(options, m.value), "legend"))

\* _update after setComponentType.
UpdateTyped(component, options, path) ==
    UpdateMapped(component, options, getMapping(ResolvePath(options, path)))

_update(component, options, path) ==
    IF ~(Truthy(options) /\ IsObject(options)) THEN Ret(component, options)
    ELSE UpdateTyped(component, setComponentType(options, path), path)

\* The chart as the call r left it (the call itself returns nothing; a throw
\* happens before the first write to the chart).
UpdateResult(chart, r) == [raised |-> r.raised, value |-> IF r.raised # "" THEN chart ELSE r.value]

update(chart, options) == UpdateResult(chart, _update(chart, ObjectCreate(options), NoPath))

(***************************************************************************)
(* The inputs: configurations a caller can write.                          *)
(***************************************************************************)

\* The longest `series` or `axes` array of a configuration.
MaxElems == 2

SeqsUpTo(S, n) == UNION {[1..k -> S] : k \in 0..n}

\* No `type`, a registered chart type, an unregistered one, and one with a dot
\* whose first segment is not registered.
TypeEntries ==
    {<<>>, <<P("type", Str(<<"cartesian">>))>>, <<P("type", Str(<<"polar">>))>>,
     <<P("type", Str(<<"unknownKind">>))>>, <<P("type", Str(<<"unknownKind", "x">>))>>}

SeriesElems ==
    {Obj(<<>>), Obj(<<P("type", Str(<<"line">>))>>), Obj(<<P("type", Str(<<"pie">>))>>),
     Obj(<<P("type", Str(<<"column">>)), P("xKey", Str(<<"month">>))>>),
     Obj(<<P("type", Str(<<"unknownKind">>))>>), Obj(<<P("type", Str(<<"unknownKind", "x">>))>>),
     Null}

AxisElems ==
    {Obj(<<P("position", Str(<<"bottom">>))>>),
     Obj(<<P("type", Str(<<"number">>)), P("position", Str(<<"left">>))>>),
     Obj(<<P("type", Str(<<"unknownKind">>))>>),
     Five}

SeriesEntries == {<<P("series", Arr(elems))>> : elems \in SeqsUpTo(SeriesElems, MaxElems)}

SeriesHeads ==
    {<<>>, <<P("series", Arr(<<Obj(<<P("type", Str(<<"line">>))>>)>>))>>,
     <<P("series", Arr(<<Obj(<<P("type", Str(<<"pie">>))>>)>>))>>,
     <<P("series", Arr(<<Obj(<<>>)>>))>>}

LegendValues ==
    {Obj(<<>>), Obj(<<P("position", Str(<<"right">>))>>),
     Obj(<<P("position", Str(<<"right">>)), P("padding", Five)>>),
     Obj(<<P("type", Str(<<"unknownKind">>)), P("position", Str(<<"left">>))>>),
     Obj(<<P("type", Str(<<"unknownKind", "x">>))>>),
     Null, Five}

NestedValues ==
    {Obj(<<P("text", Str(<<"T">>))>>), Obj(<<P("type", Str(<<"title">>)), P("text", Str(<<"T">>))>>),
     Obj(<<P("type", Str(<<"unknownKind">>))>>),
     Null, Undefined, Five, Str(<<"T">>), True}

ExtraEntries ==
    {<<>>}
    \cup {<<P("axes", Arr(elems))>> : elems \in SeqsUpTo(AxisElems, MaxElems)}
    \cup {<<P("axes", Null)>>, <<P("axes", Undefined)>>}
    \cup {<<P("legend", v)>> : v \in LegendValues}
    \cup {<<P("title", v)>> : v \in NestedValues}
    \cup {<<P("subtitle", Null)>>, <<P("subtitle", Obj(<<P("text", Str(<<"T">>))>>))>>}
    \cup {<<P("padding", Undefined)>>, <<P("padding", Obj(<<P("top", Five)>>))>>}
    \cup {<<P("width", Five)>>, <<P("document", [dom |-> "document"])>>,
          <<P("data", Arr(<<Five>>))>>}

\* The configurations handed to create.
Configs ==
    {Obj(t \o s) : t \in TypeEntries, s \in SeriesEntries}
    \cup {Obj(t \o s \o e) : t \in TypeEntries, s \in SeriesHeads, e \in ExtraEntries}

\* The configurations of the charts that update is called on.
ChartConfigs ==
    {Obj(t \o l) :
        t \in {<<>>, <<P("type", Str(<<"cartesian">>))>>, <<P("type", Str(<<"polar">>))>>},
        l \in {<<>>, <<P("legend", Obj(<<P("position", Str(<<"right">>))>>))>>,
               <<P("legend", Obj(<<P("position", Str(<<"right">>)), P("padding", Five)>>))>>}}

\* The configurations handed to update.
UpdateConfigs ==
    {Obj(t \o s \o l) :
        t \in TypeEntries,
        s \in {<<>>, <<P("series", Arr(<<Obj(<<P("type", Str(<<"pie">>))>>)>>))>>,
               <<P("series", Arr(<<Obj(<<P("type", Str(<<"line">>))>>)>>))>>},
        l \in {<<>>, <<P("legend", Null)>>, <<P("legend", Obj(<<>>))>>,
               <<P("legend", Obj(<<P("position", Str(<<"left">>))>>))>>,
               <<P("legend", Obj(<<P("padding", Five)>>))>>,
               <<P("legend", Obj(<<P("position", Str(<<"left">>)), P("padding", Undefined)>>))>>}}

(***************************************************************************)
(* The state: the caller's configuration object and what the calls made    *)
(* of it.                                                                  *)
(***************************************************************************)
VARIABLES
    cfg,        \* the caller's configuration object, as it is now
    snapshot,   \* the same object as the caller wrote it
    phase,      \* "start", "created", "recreated", "updated"
    chart,      \* what the last create returned; after update, that chart as it is now
    thrown,     \* the place of the TypeError the last call raised, "" when it returned
    prev,       \* chart before the last call when that call was not the first
    ucfg        \* the configuration handed to update
vars == <<cfg, snapshot, phase, chart, thrown, prev, ucfg>>

IsChart(c) == "ctor" \in DOMAIN c /\ IsChartClass(c.ctor)

Start(configs) ==
    /\ cfg \in configs
    /\ snapshot = cfg
    /\ phase = "start"
    /\ chart = Undefined
    /\ thrown = ""
    /\ prev = Undefined
    /\ ucfg = Undefined

Init == Start(Configs)

InitUpdate == Start(ChartConfigs)

\* chart = AgChart.create(cfg)
Create ==
    /\ phase = "start"
    /\ \E r \in {create(cfg)} :
           /\ cfg' = r.options
           /\ chart' = r.value
           /\ thrown' = r.raised
    /\ phase' = "created"
    /\ UNCHANGED <<snapshot, prev, ucfg>>

\* A second AgChart.create(cfg) with the same configuration object.
CreateAgain ==
    /\ phase = "created"
    /\ thrown = ""
    /\ \E r \in {create(cfg)} :
           /\ cfg' = r.options
           /\ chart' = r.value
           /\ thrown' = r.raised
    /\ prev' = chart
    /\ phase' = "recreated"
    /\ UNCHANGED <<snapshot, ucfg>>

\* AgChart.update(chart, options) on a chart that create returned.
Update ==
    /\ phase = "created"
    /\ thrown = ""
    /\ IsChart(chart)
    /\ \E options \in UpdateConfigs :
        \E r \in {update(chart, options)} :
            /\ chart' = r.value
            /\ thrown' = r.raised
            /\ ucfg' = options
    /\ prev' = chart
    /\ phase' = "updated"
    /\ UNCHANGED <<cfg, snapshot>>

Next == Create \/ CreateAgain

NextUpdate == Create \/ Update

Spec == Init /\ [][Next]_vars

SpecUpdate == InitUpdate /\ [][NextUpdate]_vars

(***************************************************************************)
(* What the claims expect, stated from the configuration as written.       *)
(***************************************************************************)

Cartesian == Str(<<"cartesian">>)
Polar == Str(<<"polar">>)

ChartClass(kind) == IF kind = Polar THEN "PolarChart" ELSE "CartesianChart"

\* The series kinds of each chart kind, and the class built for each.
SeriesKinds(chartClass) ==
    IF chartClass = "PolarChart" THEN {"pie"} ELSE {"line", "column", "bar", "scatter", "area"}

SeriesClass(kind) ==
    CASE kind = "line" -> "LineSeries" [] kind = "column" -> "ColumnSeries"
      [] kind = "bar" -> "BarSeries" [] kind = "scatter" -> "ScatterSeries"
      [] kind = "area" -> "AreaSeries" [] kind = "pie" -> "PieSeries"

AxisClass(kind) == IF kind = "number" THEN "NumberAxis" ELSE "CategoryAxis"

\* The type of the first element of c.series, Undefined when there is none.
FirstSeriesType(c) ==
    IF IsArray(Get(c, "series")) /\ Len(Get(c, "series").elems) > 0
       /\ HasOwn(Get(c, "series").elems[1], "type")
    THEN OwnGet(Get(c, "series").elems[1], "type")
    ELSE Undefined

\* The chart kind of a configuration: its type; without one, polar when the
\* first series is a pie, cartesian otherwise.
ExpectedKind(c) ==
    IF Truthy(Get(c, "type")) THEN Get(c, "type")
    ELSE IF FirstSeriesType(c) = Str(<<"pie">>) THEN Polar
    ELSE Cartesian

\* The class a series element is built as under a chart class; "" when the
\* element is dropped. An element without a type takes the chart's default.
BuiltSeries(chartClass, e) ==
    IF ~HasOwn(e, "type") /\ "props" \in DOMAIN e
    THEN (IF chartClass = "PolarChart" THEN "PieSeries" ELSE "LineSeries")
    ELSE IF HasOwn(e, "type") /\ \E kind \in SeriesKinds(chartClass) : OwnGet(e, "type") = Str(<<kind>>)
    THEN SeriesClass(OwnGet(e, "type").str[1])
    ELSE ""

ExpectedSeries(chartClass, elems) ==
    SelectSeq([i \in 1..Len(elems) |-> BuiltSeries(chartClass, elems[i])], LAMBDA c : c # "")

\* The class an axis element is built as under a cartesian chart; "" when it
\* is dropped: only an element with a registered type is built.
BuiltAxis(e) ==
    IF HasOwn(e, "type") /\ \E kind \in {"number", "category"} : OwnGet(e, "type") = Str(<<kind>>)
    THEN AxisClass(OwnGet(e, "type").str[1])
    ELSE ""

ExpectedAxes(elems) ==
    SelectSeq([i \in 1..Len(elems) |-> BuiltAxis(elems[i])], LAMBDA c : c # "")

\* The classes of the components of an array property of an instance.
Ctors(v) == IF IsArray(v) THEN [i \in 1..Len(v.elems) |-> v.elems[i].ctor] ELSE <<>>

\* The own properties of a configuration node other than `type`.
Options(node) == SelectSeq(node.props, LAMBDA e : e.k # "type")

Returned == thrown = ""

\* Every element of the array is an object that carries a type.
AllTyped(v) == IsArray(v) /\ \A i \in 1..Len(v.elems) : HasOwn(v.elems[i], "type")

\* Every recognised legend option of the chart is the one of the configuration's
\* legend where it gives one, the default of the option otherwise.
LegendOverwritten(c, optionsLegend) ==
    \A i \in 1..Len(LegendDefaults.props) :
        Get(Get(c, "legend"), LegendDefaults.props[i].k) =
            IF HasOwn(optionsLegend, LegendDefaults.props[i].k)
            THEN OwnGet(optionsLegend, LegendDefaults.props[i].k)
            ELSE LegendDefaults.props[i].v

(***************************************************************************)
(* The claims.                                                             *)
(***************************************************************************)

\* C1: non-mutation. After create(cfg) returns, the caller's cfg and every
\* object reachable from it equal the snapshot taken before the call.
C1_NonMutation ==
    (phase = "created" /\ Returned) => cfg = snapshot

KindAccepted(c, instance) ==
    /\ "str" \in DOMAIN ExpectedKind(c)
    /\ Len(ExpectedKind(c).str) = 1
    /\ \/ ~HasOwn(mappings, ExpectedKind(c).str[1])
       \/ ChartClass(ExpectedKind(c)) = instance.ctor

C3_KindMismatchNoOp ==
    (phase = "updated" /\ ExpectedKind(ucfg) \in {Cartesian, Polar}
        /\ ChartClass(ExpectedKind(ucfg)) # prev.ctor)
        => (Returned /\ chart = prev)

\* A polar chart with legend position "right" was updated with an explicit
\* type "cartesian" and a legend asking for position "left".
C3_Witness ==
    /\ phase = "updated"
    /\ prev.ctor = "PolarChart"
    /\ Get(ucfg, "type") = Cartesian
    /\ IsObject(Get(ucfg, "legend"))
    /\ Get(Get(ucfg, "legend"), "position") = Str(<<"left">>)
    /\ Get(Get(prev, "legend"), "position") = Str(<<"right">>)
    /\ chart = prev

\* The two default axes of a cartesian chart, as built.
DefaultAxes ==
    Arr(<<[ctor |-> "CategoryAxis", by |-> "engine", args |-> <<>>,
           props |-> <<P("position", Str(<<"bottom">>))>>],
          [ctor |-> "NumberAxis", by |-> "engine", args |-> <<>>,
           props |-> <<P("position", Str(<<"left">>))>>]>>)

\* Every axis of the chart carries the options of an element of cfg.axes.
AxesFrom(axes, given) ==
    /\ IsArray(axes)
    /\ Len(axes.elems) <= Len(given.elems)
    /\ \A i \in 1..Len(axes.elems) :
           \E j \in 1..Len(given.elems) :
               "props" \in DOMAIN given.elems[j] /\ axes.elems[i].props = Options(given.elems[j])

\* C4: defaults filled, not overridden. A cartesian chart returned by create
\* has exactly the axes category/bottom, number/left when cfg.axes is omitted
\* or falsy; when cfg.axes is an array (even an empty one) its axes come only
\* from that array.
C4_DefaultAxes ==
    (phase = "created" /\ Returned /\ IsChart(chart) /\ chart.ctor = "CartesianChart")
        => /\ ~Truthy(Get(snapshot, "axes")) => Get(chart, "axes") = DefaultAxes
           /\ IsArray(Get(snapshot, "axes")) => AxesFrom(Get(chart, "axes"), Get(snapshot, "axes"))
           /\ Get(snapshot, "axes") = Arr(<<>>) => Get(chart, "axes") = Arr(<<>>)

\* A cartesian chart was created from a configuration without axes.
C4_Witness ==
    /\ phase = "created"
    /\ IsChart(chart)
    /\ chart.ctor = "CartesianChart"
    /\ ~HasOwn(snapshot, "axes")
    /\ Len(Get(chart, "axes").elems) = 2

\* C5: silent drop in sequences. For a chart configuration of only a type and
\* a series array whose elements all carry a type, create returns the chart
\* without error, and its series are one component per element whose type is
\* registered under the chart kind, in order.
C5_SilentDrop ==
    (phase = "created" /\ ExpectedKind(snapshot) \in {Cartesian, Polar}
        /\ AllTyped(Get(snapshot, "series"))
        /\ \A i \in 1..Len(snapshot.props) : snapshot.props[i].k \in {"type", "series"})
        => /\ Returned
           /\ IsChart(chart)
           /\ Ctors(Get(chart, "series"))
                  = ExpectedSeries(ChartClass(ExpectedKind(snapshot)), Get(snapshot, "series").elems)

\* Every option of the legend sub-configuration is set on the legend.
OptionsApplied(legend, node) ==
    \A i \in 1..Len(Options(node)) : Get(legend, Options(node)[i].k) = Options(node)[i].v

\* The legend of the chart is the object the chart constructor made.
SameLegend(c) ==
    /\ "ctor" \in DOMAIN Get(c, "legend")
    /\ Get(c, "legend").ctor = "Legend"
    /\ Get(c, "legend").by = "chart"

C7_LookupNeverRaises ==
    thrown # "getMapping"

\* The keys of a cartesian configuration that name a single nested component.
NestedKeys == {"title", "subtitle", "padding", "legend"}

\* C8: non-object values are treated as absent. When a nested-component key
\* of a cartesian configuration holds a value that is not an object, create
\* returns the chart, sets nothing for that key (the legend stays as the chart
\* made it), and builds the series as usual.
C8_NonObjectAbsent ==
    (phase = "created" /\ ExpectedKind(snapshot) = Cartesian
        /\ \E key \in NestedKeys : HasOwn(snapshot, key) /\ ~IsObject(OwnGet(snapshot, key)))
        => /\ Returned
           /\ IsChart(chart)
           /\ \A key \in NestedKeys \ {"legend"} :
                  (HasOwn(snapshot, key) /\ ~IsObject(OwnGet(snapshot, key))) => ~HasOwn(chart, key)
           /\ Get(chart, "legend") = AutoLegend
           /\ IsArray(Get(snapshot, "series"))
                  => Ctors(Get(chart, "series"))
                         = ExpectedSeries("CartesianChart", Get(snapshot, "series").elems)

\* The kinds a call of create inferred: the chart class and the series classes.
KindsOf(c) == IF IsChart(c) THEN <<c.ctor, Ctors(Get(c, "series"))>> ELSE <<"", <<>>>>

\* C9: type inference. Without a root type, create builds the chart kind under
\* which the type of the first series is registered, cartesian when there is
\* none; a series element without a type is built as line under cartesian and
\* as pie under polar; a second create with the same configuration object
\* builds the same chart kind and the same series kinds.
C9_TypeInference ==
    /\ (phase \in {"created", "recreated"} /\ Returned /\ ~Truthy(Get(snapshot, "type")))
           => (IsChart(chart) /\ chart.ctor = ChartClass(ExpectedKind(snapshot)))
    /\ (phase \in {"created", "recreated"} /\ Returned /\ IsChart(chart)
           /\ IsArray(Get(snapshot, "series")))
           => Ctors(Get(chart, "series")) = ExpectedSeries(chart.ctor, Get(snapshot, "series").elems)
    /\ (phase = "recreated" /\ Returned) => KindsOf(chart) = KindsOf(prev)

\* A configuration without a type, with a pie and then a series without a
\* type, was created twice: a polar chart with two pie series both times.
C9_Witness ==
    /\ phase = "recreated"
    /\ snapshot = Obj(<<P("series", Arr(<<Obj(<<P("type", Str(<<"pie">>))>>), Obj(<<>>)>>))>>)
    /\ KindsOf(chart) = <<"PolarChart", <<"PieSeries", "PieSeries">>>>
    /\ KindsOf(prev) = KindsOf(chart)

\* C10: an axes element without a type is dropped. The axes of a cartesian
\* chart are exactly the elements of cfg.axes with a registered type, in order.
C10_UntypedAxisDropped ==
    (phase = "created" /\ Returned /\ IsChart(chart) /\ chart.ctor = "CartesianChart"
        /\ IsArray(Get(snapshot, "axes")))
        => Ctors(Get(chart, "axes")) = ExpectedAxes(Get(snapshot, "axes").elems)

====
